---- MODULE Spec2Model ----
(***************************************************************************)
(* Model of the lap-data aggregation and race-table pipeline of            *)
(* app/data_processor.py: process_lap_data, get_best_lap_times,            *)
(* get_race_lap_times and build_race_df, together with the pandas          *)
(* operations they call (boolean-mask filter, sort_values, groupby min /   *)
(* mean / idxmin, loc, merge).                                             *)
(*                                                                         *)
(* A DataFrame is a record [columns, dtype, rows]: the set of column       *)
(* names, the dtype of its driver_number column ("int64" or "object", the  *)
(* latter a column of text) and the sequence of rows.  A row is a record   *)
(* over the columns; rows of the lap table also carry the pandas index     *)
(* label in the field index.  A missing value (NaN / None) is NA; a mean   *)
(* is the exact ratio <<numerator, denominator>> in lowest terms, and a    *)
(* missing mean is the ratio <<0, 0>> (pandas computes 0.0 / 0 = NaN).     *)
(***************************************************************************)
EXTENDS Integers, Sequences, FiniteSets, TLC

VARIABLES
    laps_df,        \* the raw lap table handed to process_lap_data
    clean_df,       \* the table returned by process_lap_data
    times_df,       \* the table returned by get_best_lap_times / get_race_lap_times
    drivers_df,     \* DriverIdentity table handed to build_race_df
    results_df,     \* SessionResult table handed to build_race_df
    monitoring_df,  \* the table returned by build_race_df
    config,         \* the column display configuration returned by build_race_df
    col_order,      \* the column order returned by build_race_df
    done,           \* the calls made so far, in order
    outcome         \* how build_race_df ended: "none", "returned", "KeyError", "ValueError"

vars == <<laps_df, clean_df, times_df, drivers_df, results_df, monitoring_df,
          config, col_order, done, outcome>>

-----------------------------------------------------------------------------
(* Bounds of the model. *)

MaxLaps == 3
MaxResults == 2

-----------------------------------------------------------------------------
(* Values and columns. *)

NA == -1

KEY == "driver_number"

LapColumns ==
    {"driver_number", "lap_number", "lap_duration",
     "duration_sector_1", "duration_sector_2", "duration_sector_3",
     "i1_speed", "i2_speed", "st_speed"}

BestLapColumns ==
    <<"driver_number", "lap_duration",
      "duration_sector_1", "duration_sector_2", "duration_sector_3",
      "i1_speed", "i2_speed", "st_speed">>

SpeedColumns == <<"i1_speed", "i2_speed", "st_speed">>
MeanSpeedColumns == <<"mean_i1_speed", "mean_i2_speed", "mean_st_speed">>
SectorColumns == <<"duration_sector_1", "duration_sector_2", "duration_sector_3">>
BestSectorColumns == <<"best_sector_1", "best_sector_2", "best_sector_3">>

DriverColumns == {"driver_number", "full_name", "team_name", "headshot_url"}
ResultColumns == {"driver_number", "position", "points", "time_gap", "number_of_laps"}

Range(s) == {s[i] : i \in DOMAIN s}

\* pd.DataFrame(): no columns, no rows.
EmptyFrame == [columns |-> {}, dtype |-> "object", rows |-> <<>>]

\* DataFrame.empty: some axis has length 0.
IsEmpty(df) == df.columns = {} \/ df.rows = <<>>

\* The missing value of a column: NaN of a mean column is the ratio 0/0.
Absent(col) == IF col \in Range(MeanSpeedColumns) THEN <<0, 0>> ELSE NA

-----------------------------------------------------------------------------
(* pandas operations. *)

\* df[col].notna(): the boolean mask of the rows holding a value in col.
NotNa(df, col) == [i \in DOMAIN df.rows |-> df.rows[i][col] # NA]

\* df[mask]: the rows whose mask entry is true, in order, index labels kept.
Mask(df, mask) ==
    LET f[n \in 0..Len(df.rows)] ==
          IF n = 0 THEN <<>>
          ELSE IF mask[n] THEN Append(f[n - 1], df.rows[n]) ELSE f[n - 1]
    IN [df EXCEPT !.rows = f[Len(df.rows)]]

\* Comparison on one sort key with na_position='last': NaN sorts after every
\* value whatever the direction.  -1: a before b, 1: a after b, 0: tie.
CompareKey(a, b, ascending) ==
    IF a = b THEN 0
    ELSE IF a = NA THEN 1
    ELSE IF b = NA THEN -1
    ELSE IF (a < b) = ascending THEN -1 ELSE 1

\* Row a sorts before row b on the keys by, each in its direction: the first
\* key on which they differ decides.
Before(a, b, by, ascending) ==
    \E k \in DOMAIN by :
        /\ CompareKey(a[by[k]], b[by[k]], ascending[k]) = -1
        /\ \A j \in 1..(k - 1) : CompareKey(a[by[j]], b[by[j]], ascending[j]) = 0

\* df.sort_values(by, ascending): a stable sort (pandas sorts on several keys
\* with a stable lexsort): each row is inserted after the rows that do not
\* come after it.
SortValues(df, by, ascending) ==
    LET f[n \in 0..Len(df.rows)] ==
          IF n = 0 THEN <<>>
          ELSE LET s == f[n - 1]
                   r == df.rows[n]
               IN SelectSeq(s, LAMBDA e : ~Before(r, e, by, ascending)) \o <<r>>
                    \o SelectSeq(s, LAMBDA e : Before(r, e, by, ascending))
    IN [df EXCEPT !.rows = f[Len(df.rows)]]

RECURSIVE Ascending(_)
\* The elements of a finite set of numbers as an ascending sequence.
Ascending(S) ==
    IF S = {} THEN <<>>
    ELSE LET m == CHOOSE x \in S : \A y \in S : x <= y
         IN <<m>> \o Ascending(S \ {m})

\* The distinct group keys of groupby('driver_number'), ascending (sort=True).
GroupKeys(df) == Ascending({df.rows[i].driver_number : i \in DOMAIN df.rows})

\* The rows of one group, in the order they have in the table.
Group(df, d) == SelectSeq(df.rows, LAMBDA r : r.driver_number = d)

\* The present values of a column in a sequence of rows, in order (skipna).
Present(rows, col) ==
    LET kept == SelectSeq(rows, LAMBDA r : r[col] # NA)
    IN [i \in DOMAIN kept |-> kept[i][col]]

RECURSIVE SeqSum(_)
SeqSum(s) == IF s = <<>> THEN 0 ELSE Head(s) + SeqSum(Tail(s))

RECURSIVE SeqMin(_)
SeqMin(s) ==
    IF Len(s) = 1 THEN s[1]
    ELSE LET m == SeqMin(Tail(s)) IN IF m < Head(s) THEN m ELSE Head(s)

RECURSIVE GCD(_, _)
GCD(a, b) == IF b = 0 THEN a ELSE GCD(b, a % b)

\* The float quotient num / den as an exact ratio; 0 / 0 is NaN.
Ratio(num, den) ==
    IF den = 0 THEN <<0, 0>>
    ELSE LET g == GCD(num, den) IN <<num \div g, den \div g>>

\* As GroupMin, with NaN not skipped: one missing value makes the minimum missing.
GroupMin_KeepsNaN(df, d, col) ==
    LET g == Group(df, d)
    IN IF \E i \in DOMAIN g : g[i][col] = NA THEN NA
       ELSE SeqMin([i \in DOMAIN g |-> g[i][col]])

\* groupby(...)[col].min() for one group: NaN is skipped, NaN if nothing is left.
GroupMin(df, d, col) ==
    LET vals == Present(Group(df, d), col)
    IN IF vals = <<>> THEN NA ELSE SeqMin(vals)

\* As GroupMean, dividing by the number of rows of the group, missing or not.
GroupMean_CountsAll(df, d, col) ==
    Ratio(SeqSum(Present(Group(df, d), col)), Len(Group(df, d)))

\* groupby(...)[col].mean() for one group: sum and count of the present values.
GroupMean(df, d, col) ==
    LET vals == Present(Group(df, d), col)
    IN Ratio(SeqSum(vals), Len(vals))

\* As IdxMin, taking the last row holding the minimum.
IdxMin_Last(df, d, col) ==
    LET g == Group(df, d)
        m == GroupMin(df, d, col)
        last == CHOOSE i \in DOMAIN g :
                    /\ g[i][col] = m
                    /\ \A j \in (i + 1)..Len(g) : g[j][col] # m
    IN IF m = NA THEN NA ELSE g[last].index

\* groupby(...)[col].idxmin() for one group: the index label of the first row
\* of the group holding the group's minimum.
IdxMin(df, d, col) ==
    LET g == Group(df, d)
        m == GroupMin(df, d, col)
        first == CHOOSE i \in DOMAIN g :
                    /\ g[i][col] = m
                    /\ \A j \in 1..(i - 1) : g[j][col] # m
    IN IF m = NA THEN NA ELSE g[first].index

\* df.loc[labels]: for each label in turn, the rows carrying that index label.
Loc(df, labels) ==
    LET f[n \in 0..Len(labels)] ==
          IF n = 0 THEN <<>>
          ELSE f[n - 1] \o SelectSeq(df.rows, LAMBDA r : r.index = labels[n])
    IN [df EXCEPT !.rows = f[Len(labels)]]

\* df[cols].reset_index(drop=True): the named columns only, index labels dropped.
SelectColumns(df, cols) ==
    [df EXCEPT !.columns = Range(cols),
               !.rows = [i \in DOMAIN df.rows |->
                           [c \in Range(cols) |-> df.rows[i][c]]]]

\* df.groupby('driver_number')[cols].min() or .mean(), then reset_index() and
\* df.columns = ['driver_number'] + names: one row per group key, ascending.
GroupAgg(df, cols, names, how) ==
    LET keys == GroupKeys(df)
        row(d) == [c \in {KEY} \cup Range(names) |->
                     IF c = KEY THEN d
                     ELSE LET k == CHOOSE k \in DOMAIN names : names[k] = c
                          IN IF how = "min" THEN GroupMin(df, d, cols[k])
                             ELSE GroupMean(df, d, cols[k])]
    IN [columns |-> {KEY} \cup Range(names),
        dtype   |-> df.dtype,
        rows    |-> [i \in DOMAIN keys |-> row(keys[i])]]

\* The exception DataFrame.merge(on='driver_number') raises, or "none":
\* a missing key column is a KeyError; a numeric key against a text key is a
\* ValueError unless one of the two sides has no rows.
MergeError(left, right) ==
    IF KEY \notin left.columns \/ KEY \notin right.columns THEN "KeyError"
    ELSE IF left.rows # <<>> /\ right.rows # <<>> /\ left.dtype # right.dtype
         THEN "ValueError"
    ELSE "none"

\* left.merge(right, on='driver_number', how=how), how "left" or "inner":
\* rows in the order of the left keys, one per matching right row; with
\* how='left' a left row without a match is kept with the right columns missing.
Merge(left, right, how) ==
    LET added == right.columns \ left.columns
        nulls == [c \in added |-> Absent(c)]
        matches(l) == SelectSeq(right.rows,
                                LAMBDA r : /\ left.dtype = right.dtype
                                           /\ r.driver_number = l.driver_number)
        joined(l) ==
            LET m == matches(l)
            IN IF m = <<>>
               THEN IF how = "left" THEN <<l @@ nulls>> ELSE <<>>
               ELSE [i \in DOMAIN m |-> l @@ [c \in added |-> m[i][c]]]
        f[n \in 0..Len(left.rows)] ==
            IF n = 0 THEN <<>> ELSE f[n - 1] \o joined(left.rows[n])
    IN [columns |-> left.columns \cup right.columns,
        dtype   |-> left.dtype,
        rows    |-> f[Len(left.rows)]]

-----------------------------------------------------------------------------
(* The functions of app/data_processor.py. *)

\* As LapSortKeys, sorting by driver_number alone.
LapSortKeys_DriverOnly == <<"driver_number">>

\* The sort keys of process_lap_data, both ascending.
LapSortKeys == <<"driver_number", "lap_number">>

process_lap_data(df) ==
    IF IsEmpty(df) THEN df
    ELSE SortValues(Mask(df, NotNa(df, "lap_duration")),
                    LapSortKeys, [k \in DOMAIN LapSortKeys |-> TRUE])

get_best_lap_times(df) ==
    IF IsEmpty(df) THEN EmptyFrame
    ELSE LET keys == GroupKeys(df)
             idx == [i \in DOMAIN keys |-> IdxMin(df, keys[i], "lap_duration")]
             best_laps == Loc(df, idx)
         IN SelectColumns(best_laps, BestLapColumns)

\* As get_race_lap_times, after dropping every lap that misses any value (dropna).
get_race_lap_times_DropNa(df) ==
    IF IsEmpty(df) THEN EmptyFrame
    ELSE LET full == Mask(df, [i \in DOMAIN df.rows |->
                                 \A c \in LapColumns : df.rows[i][c] # NA])
             best_laps == GroupAgg(full, <<"lap_duration">>, <<"best_lap_duration">>, "min")
             mean_speeds == GroupAgg(full, SpeedColumns, MeanSpeedColumns, "mean")
             best_sectors == GroupAgg(full, SectorColumns, BestSectorColumns, "min")
         IN Merge(Merge(best_laps, mean_speeds, "inner"), best_sectors, "inner")

get_race_lap_times(df) ==
    IF IsEmpty(df) THEN EmptyFrame
    ELSE LET best_laps == GroupAgg(df, <<"lap_duration">>, <<"best_lap_duration">>, "min")
             mean_speeds == GroupAgg(df, SpeedColumns, MeanSpeedColumns, "mean")
             best_sectors == GroupAgg(df, SectorColumns, BestSectorColumns, "min")
         IN Merge(Merge(best_laps, mean_speeds, "inner"), best_sectors, "inner")

\* As RaceSortAscending, with number_of_laps ascending too.
RaceSortAscending_Both == <<TRUE, TRUE>>

\* The sort of build_race_df: by=['position', 'number_of_laps'],
\* ascending=[True, False], NaN last in both keys.
RaceSortKeys == <<"position", "number_of_laps">>
RaceSortAscending == <<TRUE, FALSE>>

\* The display configuration of build_race_df: for each configured column its
\* streamlit column type, label and format ("" when none is given).
ColumnConfig ==
    [position          |-> [type |-> "Number", label |-> "Position", format |-> "%d"],
     headshot_url      |-> [type |-> "Image", label |-> "Headshot", format |-> ""],
     full_name         |-> [type |-> "Text", label |-> "Driver", format |-> ""],
     team_name         |-> [type |-> "Text", label |-> "Team", format |-> ""],
     points            |-> [type |-> "Number", label |-> "Points", format |-> "%d"],
     time_gap          |-> [type |-> "Time", label |-> "Time Gap", format |-> "iso8601"],
     number_of_laps    |-> [type |-> "Number", label |-> "Laps", format |-> "%d"],
     best_lap_duration |-> [type |-> "Number", label |-> "Best Lap Duration", format |-> "%.3f"],
     mean_i1_speed     |-> [type |-> "Number", label |-> "Mean Interval 1 Speed", format |-> "%.2f"],
     mean_i2_speed     |-> [type |-> "Number", label |-> "Mean Interval 2 Speed", format |-> "%.2f"],
     mean_st_speed     |-> [type |-> "Number", label |-> "Mean ST Speed", format |-> "%.2f"],
     best_sector_1     |-> [type |-> "Number", label |-> "Best Sector 1", format |-> "%.3f"],
     best_sector_2     |-> [type |-> "Number", label |-> "Best Sector 2", format |-> "%.3f"],
     best_sector_3     |-> [type |-> "Number", label |-> "Best Sector 3", format |-> "%.3f"]]

\* The canonical column order of build_race_df.
ColOrder ==
    <<"position", "headshot_url", "full_name",
      "team_name", "points", "time_gap", "best_lap_duration",
      "best_sector_1", "best_sector_2", "best_sector_3",
      "mean_i1_speed", "mean_i2_speed", "mean_st_speed",
      "number_of_laps">>

\* As build_race_df, joining the results with how='inner'.
build_race_df_InnerJoin(drivers, times, results) ==
    LET e1 == MergeError(drivers, results)
        merged_df == Merge(drivers, results, "inner")
        e2 == MergeError(merged_df, times)
        monitoring == Merge(merged_df, times, "left")
    IN IF e1 # "none"
       THEN [error |-> e1, df |-> EmptyFrame, config |-> <<>>, col_order |-> <<>>]
       ELSE IF e2 # "none"
       THEN [error |-> e2, df |-> EmptyFrame, config |-> <<>>, col_order |-> <<>>]
       ELSE [error |-> "none",
             df |-> SortValues(monitoring, RaceSortKeys, RaceSortAscending),
             config |-> ColumnConfig,
             col_order |-> ColOrder]

\* build_race_df: [error, df, config, col_order], error the exception raised
\* ("none" when it returns the three values).
build_race_df(drivers, times, results) ==
    LET e1 == MergeError(drivers, results)
        merged_df == Merge(drivers, results, "left")
        e2 == MergeError(merged_df, times)
        monitoring == Merge(merged_df, times, "left")
    IN IF e1 # "none"
       THEN [error |-> e1, df |-> EmptyFrame, config |-> <<>>, col_order |-> <<>>]
       ELSE IF e2 # "none"
       THEN [error |-> e2, df |-> EmptyFrame, config |-> <<>>, col_order |-> <<>>]
       ELSE [error |-> "none",
             df |-> SortValues(monitoring, RaceSortKeys, RaceSortAscending),
             config |-> ColumnConfig,
             col_order |-> ColOrder]

-----------------------------------------------------------------------------
(* Inputs. *)

DriverNumbers == {1, 2, 3}
LapNumbers == {1, 2}
KeyDtypes == {"int64", "object"}

\* The timing and telemetry of a lap: two laps tie on lap_duration, sector and
\* speed samples are missing here and there, and a lap without lap_duration
\* still carries telemetry.
LapShapes ==
    { [lap_duration |-> 1, duration_sector_1 |-> 1, duration_sector_2 |-> 2,
       duration_sector_3 |-> NA, i1_speed |-> 4, i2_speed |-> NA, st_speed |-> 2],
      [lap_duration |-> 2, duration_sector_1 |-> 2, duration_sector_2 |-> 1,
       duration_sector_3 |-> 3, i1_speed |-> 2, i2_speed |-> 3, st_speed |-> NA],
      [lap_duration |-> 1, duration_sector_1 |-> NA, duration_sector_2 |-> 1,
       duration_sector_3 |-> 1, i1_speed |-> NA, i2_speed |-> NA, st_speed |-> NA],
      [lap_duration |-> 2, duration_sector_1 |-> 1, duration_sector_2 |-> NA,
       duration_sector_3 |-> 2, i1_speed |-> 3, i2_speed |-> 2, st_speed |-> NA],
      [lap_duration |-> NA, duration_sector_1 |-> 1, duration_sector_2 |-> 1,
       duration_sector_3 |-> 1, i1_speed |-> 1, i2_speed |-> 1, st_speed |-> 1] }

\* A lap record of the raw table, without its index label.
LapRecord(d, n, shape) == [driver_number |-> d, lap_number |-> n] @@ shape

\* The raw lap table of the given records: a RangeIndex labels the rows from 0.
LapFrame(dtype, records) ==
    [columns |-> LapColumns,
     dtype   |-> dtype,
     rows    |-> [i \in DOMAIN records |-> [index |-> i - 1] @@ records[i]]]

\* The lap tables the race-table runs start from: no laps at all; laps of
\* drivers 2 and 1; a single lap that has no lap_duration.
SampleLaps ==
    LET shape(dur, s1) == CHOOSE sh \in LapShapes :
                              sh.lap_duration = dur /\ sh.duration_sector_1 = s1
    IN { <<>>,
         << LapRecord(2, 1, shape(2, 1)), LapRecord(1, 1, shape(2, 2)),
            LapRecord(1, 2, shape(1, 1)) >>,
         << LapRecord(1, 1, shape(NA, 1)) >> }

DriverRow(d) ==
    [driver_number |-> d,
     full_name     |-> <<"VER", "HAM", "LEC">>[d],
     team_name     |-> <<"RBR", "FER", "FER">>[d],
     headshot_url  |-> <<"ver.png", "ham.png", "lec.png">>[d]]

\* SessionResult rows: drivers 1 and 2, classified first or second or not
\* classified (no position, no time gap).
ResultRows ==
    { [driver_number  |-> d,
       position       |-> p,
       points         |-> IF p = 1 THEN 25 ELSE IF p = 2 THEN 18 ELSE 0,
       time_gap       |-> IF p = 1 THEN 0 ELSE IF p = 2 THEN 7 ELSE NA,
       number_of_laps |-> n] : d \in {1, 2}, p \in {NA, 1, 2}, n \in {1, 2} }

Append1(df, row) == [df EXCEPT !.rows = Append(df.rows, row)]

-----------------------------------------------------------------------------
(* The state machine: the inputs are materialised, then the pipeline runs   *)
(* process_lap_data, one of the two aggregate builders, and build_race_df.  *)

Unset == EmptyFrame

InitTables ==
    /\ clean_df = Unset
    /\ times_df = Unset
    /\ monitoring_df = Unset
    /\ config = <<>>
    /\ col_order = <<>>
    /\ done = <<>>
    /\ outcome = "none"

\* The lap pipeline alone: the lap table is built record by record.
Init ==
    /\ laps_df = LapFrame("int64", <<>>)
    /\ drivers_df = [columns |-> DriverColumns, dtype |-> "int64", rows |-> <<>>]
    /\ results_df = [columns |-> ResultColumns, dtype |-> "int64", rows |-> <<>>]
    /\ InitTables

\* The race table: the lap table is one of the samples, the driver and result
\* tables are built row by row; the lap and result keys are numbers or text.
InitRace ==
    /\ \E dtype \in KeyDtypes, records \in SampleLaps :
            laps_df = LapFrame(dtype, records)
    /\ drivers_df = [columns |-> DriverColumns, dtype |-> "int64", rows |-> <<>>]
    /\ \E dtype \in KeyDtypes :
            results_df = [columns |-> ResultColumns, dtype |-> dtype, rows |-> <<>>]
    /\ InitTables

AddLap ==
    /\ done = <<>>
    /\ Len(laps_df.rows) < MaxLaps
    /\ \E d \in {1, 2}, n \in LapNumbers, shape \in LapShapes :
            laps_df' = Append1(laps_df, [index |-> Len(laps_df.rows)]
                                          @@ LapRecord(d, n, shape))
    /\ UNCHANGED <<clean_df, times_df, drivers_df, results_df, monitoring_df, config, col_order, done, outcome>>

\* driver_number is unique within a session: a driver is listed once.
AddDriver ==
    /\ done = <<>>
    /\ \E d \in DriverNumbers :
            /\ \A i \in DOMAIN drivers_df.rows : drivers_df.rows[i].driver_number # d
            /\ drivers_df' = Append1(drivers_df, DriverRow(d))
    /\ UNCHANGED <<laps_df, clean_df, times_df, results_df, monitoring_df, config, col_order, done, outcome>>

AddResult ==
    /\ done = <<>>
    /\ Len(results_df.rows) < MaxResults
    /\ \E row \in ResultRows : results_df' = Append1(results_df, row)
    /\ UNCHANGED <<laps_df, clean_df, times_df, drivers_df, monitoring_df, config, col_order, done, outcome>>

ProcessLapData ==
    /\ done = <<>>
    /\ clean_df' = process_lap_data(laps_df)
    /\ done' = <<"process_lap_data">>
    /\ UNCHANGED <<laps_df, times_df, drivers_df, results_df, monitoring_df, config, col_order, outcome>>

GetBestLapTimes ==
    /\ done = <<"process_lap_data">>
    /\ times_df' = get_best_lap_times(clean_df)
    /\ done' = Append(done, "get_best_lap_times")
    /\ UNCHANGED <<laps_df, clean_df, drivers_df, results_df, monitoring_df, config, col_order, outcome>>

GetRaceLapTimes ==
    /\ done = <<"process_lap_data">>
    /\ times_df' = get_race_lap_times(clean_df)
    /\ done' = Append(done, "get_race_lap_times")
    /\ UNCHANGED <<laps_df, clean_df, drivers_df, results_df, monitoring_df, config, col_order, outcome>>

BuildRaceDf ==
    /\ Len(done) = 2
    /\ LET r == build_race_df(drivers_df, times_df, results_df)
       IN /\ monitoring_df' = r.df
          /\ config' = r.config
          /\ col_order' = r.col_order
          /\ outcome' = IF r.error = "none" THEN "returned" ELSE r.error
    /\ done' = Append(done, "build_race_df")
    /\ UNCHANGED <<laps_df, clean_df, times_df, drivers_df, results_df>>

Next == AddLap \/ ProcessLapData \/ GetBestLapTimes \/ GetRaceLapTimes

NextRace ==
    \/ AddDriver
    \/ AddResult
    \/ ProcessLapData
    \/ GetBestLapTimes
    \/ GetRaceLapTimes
    \/ BuildRaceDf

Spec == Init /\ [][Next]_vars

SpecRace == InitRace /\ [][NextRace]_vars

-----------------------------------------------------------------------------
(* Vocabulary of the properties. *)

Filtered == Len(done) >= 1
BestBuilt == Len(done) >= 2 /\ done[2] = "get_best_lap_times"
RaceBuilt == Len(done) >= 2 /\ done[2] = "get_race_lap_times"

\* The positions of the rows of driver d in a table.
RowsOf(df, d) == {i \in DOMAIN df.rows : df.rows[i].driver_number = d}

\* The drivers with a row in a table.
DriversOf(df) == {df.rows[i].driver_number : i \in DOMAIN df.rows}

\* The positions of the rows of driver d in the filtered table whose column
\* col holds a value.
Samples(d, col) == {i \in RowsOf(clean_df, d) : clean_df.rows[i][col] # NA}

RECURSIVE Total(_, _)
\* The sum of column col over the rows of the filtered table at positions I.
Total(I, col) ==
    IF I = {} THEN 0
    ELSE LET i == CHOOSE i \in I : TRUE
         IN clean_df.rows[i][col] + Total(I \ {i}, col)

\* v is the least value of column col over the rows at positions I.
IsLeast(v, I, col) ==
    /\ \E i \in I : clean_df.rows[i][col] = v
    /\ \A i \in I : v <= clean_df.rows[i][col]

\* Exactly one row of the aggregate table for each driver of the filtered table.
OneRowPerDriver ==
    /\ DriversOf(times_df) = DriversOf(clean_df)
    /\ \A d \in DriversOf(clean_df) : Cardinality(RowsOf(times_df, d)) = 1

-----------------------------------------------------------------------------
(* C1: process_lap_data returns exactly the input records whose            *)
(* lap_duration is present, none lost, none duplicated, none with an       *)
(* absent lap_duration, ordered by driver_number and then lap_number, both *)
(* ascending; the empty input gives the empty output.                      *)
C1_FilterKeepsPresentSorted ==
    Filtered =>
        LET in == laps_df.rows
            out == clean_df.rows
            kept == {i \in DOMAIN in : in[i].lap_duration # NA}
        IN /\ Len(out) = Cardinality(kept)
           /\ \A i \in kept : \E j \in DOMAIN out : out[j] = in[i]
           /\ \A j \in DOMAIN out :
                 /\ out[j].lap_duration # NA
                 /\ \E i \in kept : out[j] = in[i]
           /\ \A j, k \in DOMAIN out :
                 j < k =>
                   \/ out[j].driver_number < out[k].driver_number
                   \/ /\ out[j].driver_number = out[k].driver_number
                      /\ out[j].lap_number <= out[k].lap_number

\* A lap without lap_duration was dropped and the kept laps were reordered
\* on both keys.
C1_Witness ==
    /\ Filtered
    /\ \E i \in DOMAIN laps_df.rows : laps_df.rows[i].lap_duration = NA
    /\ Len(clean_df.rows) = 2
    /\ clean_df.rows[1].index > clean_df.rows[2].index
    /\ clean_df.rows[1].driver_number = clean_df.rows[2].driver_number
    /\ clean_df.rows[1].lap_number < clean_df.rows[2].lap_number

(* C2: for a non-empty filtered table get_best_lap_times returns exactly   *)
(* one row per distinct driver_number; the row holds the driver's minimum  *)
(* lap_duration, and its sector durations and speeds are those of the lap  *)
(* that achieved it, the first such lap in input order on a tie, absent    *)
(* values included.                                                        *)
C2_BestLapFromOneLap ==
    (BestBuilt /\ clean_df.rows # <<>>) =>
        /\ OneRowPerDriver
        /\ \A t \in DOMAIN times_df.rows :
              LET row == times_df.rows[t]
                  laps == RowsOf(clean_df, row.driver_number)
              IN \E i \in laps :
                    /\ IsLeast(clean_df.rows[i].lap_duration, laps, "lap_duration")
                    /\ \A j \in laps :
                          j < i => clean_df.rows[j].lap_duration
                                     # clean_df.rows[i].lap_duration
                    /\ DOMAIN row = Range(BestLapColumns)
                    /\ \A c \in Range(BestLapColumns) : row[c] = clean_df.rows[i][c]

\* Two laps of a driver tie on the minimum, the first of them lacks a value
\* that the second has, and a slower lap of the driver has a smaller sector.
C2_Witness ==
    /\ BestBuilt
    /\ \E i, j, k \in DOMAIN clean_df.rows :
          LET a == clean_df.rows[i]
              b == clean_df.rows[j]
              c == clean_df.rows[k]
          IN /\ i < j
             /\ a.driver_number = b.driver_number
             /\ a.driver_number = c.driver_number
             /\ a.lap_duration = b.lap_duration
             /\ a.lap_duration < c.lap_duration
             /\ a.duration_sector_3 = NA
             /\ b.duration_sector_3 # NA
             /\ c.duration_sector_2 # NA
             /\ c.duration_sector_2 < a.duration_sector_2
             /\ \E t \in DOMAIN times_df.rows :
                   /\ times_df.rows[t].driver_number = a.driver_number
                   /\ times_df.rows[t].duration_sector_3 = NA

C4_MeanOfPresentSamples ==
    (RaceBuilt /\ clean_df.rows # <<>>) =>
        \A d \in DriversOf(clean_df) :
            \E t \in DOMAIN times_df.rows :
                /\ times_df.rows[t].driver_number = d
                /\ \A k \in 1..3 :
                      LET mean == times_df.rows[t][MeanSpeedColumns[k]]
                          S == Samples(d, SpeedColumns[k])
                      IN IF S = {}
                         THEN mean = <<0, 0>>
                         ELSE /\ mean[2] > 0
                              /\ mean[1] * Cardinality(S)
                                   = mean[2] * Total(S, SpeedColumns[k])

\* A driver has two present and one absent sample of i1_speed, whose mean is
\* not a whole number, and no sample at all of st_speed.
C4_Witness ==
    /\ RaceBuilt
    /\ \E t \in DOMAIN times_df.rows :
          LET d == times_df.rows[t].driver_number
          IN /\ Cardinality(RowsOf(clean_df, d)) = 3
             /\ Cardinality(Samples(d, "i1_speed")) = 2
             /\ times_df.rows[t].mean_i1_speed[2] = 2
             /\ Samples(d, "st_speed") = {}
             /\ times_df.rows[t].mean_st_speed = <<0, 0>>

(* C10: in get_race_lap_times a lap with a lap_duration that lacks an      *)
(* optional field (a sector duration or a speed sample) is left out only   *)
(* of the aggregate of that field: it counts toward best_lap_duration,     *)
(* toward the minima of the sectors it has and toward the means of the     *)
(* speeds it has, and its driver has a row.                                *)
C10_MissingFieldOnlyThatAggregate ==
    RaceBuilt =>
        \A i \in DOMAIN clean_df.rows :
            LET lap == clean_df.rows[i]
                d == lap.driver_number
                others(col) == Samples(d, col) \ {i}
            IN (\E c \in Range(SectorColumns) \cup Range(SpeedColumns) : lap[c] = NA) =>
                 \E t \in DOMAIN times_df.rows :
                    LET row == times_df.rows[t]
                    IN /\ row.driver_number = d
                       /\ row.best_lap_duration # NA
                       /\ row.best_lap_duration <= lap.lap_duration
                       /\ \A k \in 1..3 :
                             LET best == row[BestSectorColumns[k]]
                                 col == SectorColumns[k]
                             IN IF lap[col] # NA
                                THEN best # NA /\ best <= lap[col]
                                ELSE IF others(col) = {} THEN best = NA
                                     ELSE IsLeast(best, others(col), col)
                       /\ \A k \in 1..3 :
                             LET mean == row[MeanSpeedColumns[k]]
                                 col == SpeedColumns[k]
                                 n == Cardinality(others(col))
                                 sum == Total(others(col), col)
                             IN IF lap[col] # NA
                                THEN mean[1] * (n + 1) = mean[2] * (sum + lap[col])
                                       /\ mean[2] > 0
                                ELSE mean[1] * n = mean[2] * sum
                                       /\ (mean[2] = 0 <=> n = 0)

\* A lap lacking st_speed only is not the driver's best lap, yet it gives the
\* driver's best sector 2 and its i2_speed is the only sample of the mean.
C10_Witness ==
    /\ RaceBuilt
    /\ \E i \in DOMAIN clean_df.rows, t \in DOMAIN times_df.rows :
          LET lap == clean_df.rows[i]
              row == times_df.rows[t]
          IN /\ row.driver_number = lap.driver_number
             /\ Cardinality(RowsOf(clean_df, lap.driver_number)) = 2
             /\ {c \in LapColumns : lap[c] = NA} = {"st_speed"}
             /\ row.best_lap_duration < lap.lap_duration
             /\ row.best_sector_2 = lap.duration_sector_2
             /\ Samples(lap.driver_number, "i2_speed") = {i}
             /\ row.mean_i2_speed = <<lap.i2_speed, 1>>
             /\ row.mean_st_speed # <<0, 0>>

-----------------------------------------------------------------------------
(* The race table. *)

Called == Len(done) = 3
Returned == outcome = "returned"

\* At most one row per driver_number.
UniqueKeys(df) ==
    \A i, j \in DOMAIN df.rows :
        i # j => df.rows[i].driver_number # df.rows[j].driver_number

\* The columns a table adds to the race table.
Fields(df) == df.columns \ {KEY}

\* Row `row` of the race table carries the values of row `src` in the columns cols.
Carries(row, src, cols) == \A c \in cols : row[c] = src[c]

\* Row `row` of the race table has no value in any of the columns cols.
AllNull(row, cols) == \A c \in cols : row[c] = Absent(c)

\* The three tables have driver_number keys of one type.
SameKeyTypes ==
    /\ results_df.dtype = drivers_df.dtype
    /\ laps_df.dtype = drivers_df.dtype

(* C5: when each of the three tables holds at most one row per             *)
(* driver_number, the table build_race_df returns holds every              *)
(* DriverIdentity row exactly once, whether or not a result row or an      *)
(* aggregate row matches it, and no row of any other driver_number.        *)
C5_StrictLeftJoin ==
    (Returned /\ UniqueKeys(drivers_df) /\ UniqueKeys(results_df) /\ UniqueKeys(times_df)) =>
        /\ Len(monitoring_df.rows) = Len(drivers_df.rows)
        /\ DriversOf(monitoring_df) = DriversOf(drivers_df)
        /\ \A i \in DOMAIN drivers_df.rows :
              Cardinality({j \in DOMAIN monitoring_df.rows :
                             Carries(monitoring_df.rows[j], drivers_df.rows[i],
                                     DriverColumns)}) = 1

\* Of two drivers one has a result row and an aggregate row and the other has
\* neither, while both tables hold a row of a driver that is not listed.
C5_Witness ==
    /\ Returned
    /\ UniqueKeys(results_df)
    /\ Len(drivers_df.rows) = 2
    /\ \E d \in DriversOf(drivers_df) : d \in DriversOf(results_df) \cap DriversOf(times_df)
    /\ \E d \in DriversOf(drivers_df) : d \notin DriversOf(results_df) \cup DriversOf(times_df)
    /\ \E d \in DriversOf(results_df) \cap DriversOf(times_df) : d \notin DriversOf(drivers_df)
    /\ Len(monitoring_df.rows) = 2

(* C6: the rows of the table build_race_df returns are ordered by position *)
(* ascending, every row without a position after every row with one; rows  *)
(* of equal position, and rows without a position among themselves, are    *)
(* ordered by number_of_laps descending (a row without number_of_laps      *)
(* after those that have one).                                             *)
C6_SortedByPositionThenLaps ==
    Returned =>
        \A i, j \in DOMAIN monitoring_df.rows :
            i < j =>
              LET a == monitoring_df.rows[i]
                  b == monitoring_df.rows[j]
              IN /\ a.position = NA => b.position = NA
                 /\ (a.position # NA /\ b.position # NA) => a.position <= b.position
                 /\ a.position = b.position =>
                       /\ a.number_of_laps = NA => b.number_of_laps = NA
                       /\ (a.number_of_laps # NA /\ b.number_of_laps # NA) =>
                             a.number_of_laps >= b.number_of_laps

\* Three drivers listed in the reverse of the final order: a classified one,
\* an unclassified one with laps, and one without a result row.
C6_Witness ==
    /\ Returned
    /\ Len(monitoring_df.rows) = 3
    /\ Len(drivers_df.rows) = 3
    /\ \A i \in 1..3 : monitoring_df.rows[i].driver_number
                            = drivers_df.rows[4 - i].driver_number
    /\ monitoring_df.rows[1].position # NA
    /\ monitoring_df.rows[2].position = NA
    /\ monitoring_df.rows[2].number_of_laps # NA
    /\ monitoring_df.rows[3].position = NA
    /\ monitoring_df.rows[3].number_of_laps = NA

(* C7: in the table build_race_df returns, a driver of DriverIdentity with *)
(* no SessionResult row has null position, points, time_gap and            *)
(* number_of_laps and the values of its aggregate row; a driver with no    *)
(* aggregate row has null lap-aggregate fields and the values of its       *)
(* result row; the identity fields are those of the DriverIdentity row;    *)
(* and no exception is raised.                                             *)
C7_JoinMissGivesNulls ==
    (Called /\ SameKeyTypes /\ drivers_df.rows # <<>> /\ results_df.rows # <<>>
       /\ UniqueKeys(results_df)) =>
        /\ Returned
        /\ \A i \in DOMAIN drivers_df.rows :
              LET d == drivers_df.rows[i].driver_number
              IN \E j \in DOMAIN monitoring_df.rows :
                    LET row == monitoring_df.rows[j]
                    IN /\ Carries(row, drivers_df.rows[i], DriverColumns)
                       /\ IF RowsOf(results_df, d) = {}
                          THEN AllNull(row, Fields(results_df))
                          ELSE \E r \in RowsOf(results_df, d) :
                                  Carries(row, results_df.rows[r], Fields(results_df))
                       /\ IF RowsOf(times_df, d) = {}
                          THEN AllNull(row, Fields(times_df))
                          ELSE \E t \in RowsOf(times_df, d) :
                                  Carries(row, times_df.rows[t], Fields(times_df))

(* C8: the pipeline run on an empty lap sequence never raises:             *)
(* process_lap_data, get_best_lap_times and get_race_lap_times each return *)
(* an empty table, and build_race_df given that table with non-empty       *)
(* DriverIdentity and SessionResult tables returns one row per driver with *)
(* all lap-aggregate fields null.                                          *)
C8_EmptyLapsNeverRaise ==
    (Called /\ laps_df.rows = <<>> /\ SameKeyTypes
       /\ drivers_df.rows # <<>> /\ results_df.rows # <<>> /\ UniqueKeys(results_df)) =>
        /\ clean_df.rows = <<>>
        /\ times_df.rows = <<>>
        /\ Returned
        /\ Len(monitoring_df.rows) = Len(drivers_df.rows)
        /\ \A j \in DOMAIN monitoring_df.rows :
              AllNull(monitoring_df.rows[j],
                      monitoring_df.columns \ (DriverColumns \cup ResultColumns))

(* C9: when the driver_number key of DriverIdentity differs in type from   *)
(* that of SessionResult or of the lap-aggregate table, build_race_df does *)
(* not raise: it returns every DriverIdentity row with the fields of the   *)
(* mismatched table all null.                                              *)
C9_KeyTypeMismatchGivesNulls ==
    (Called /\ ~SameKeyTypes /\ KEY \in times_df.columns
       /\ drivers_df.rows # <<>> /\ results_df.rows # <<>>) =>
        /\ Returned
        /\ \A i \in DOMAIN drivers_df.rows :
              \E j \in DOMAIN monitoring_df.rows :
                 LET row == monitoring_df.rows[j]
                 IN /\ Carries(row, drivers_df.rows[i], DriverColumns)
                    /\ results_df.dtype # drivers_df.dtype =>
                          AllNull(row, Fields(results_df))
                    /\ times_df.dtype # drivers_df.dtype =>
                          AllNull(row, Fields(times_df))

(* C11: for either kind of lap-aggregate input build_race_df accepts (the  *)
(* output of get_best_lap_times or of get_race_lap_times on a non-empty    *)
(* lap sequence), every column named in the column order it returns is a   *)
(* column of the table returned with it, and every column of that order    *)
(* has an entry in the returned display configuration.                     *)
C11_ColumnOrderWithinTable ==
    (Returned /\ laps_df.rows # <<>> /\ drivers_df.rows # <<>>) =>
        /\ Range(col_order) \subseteq monitoring_df.columns
        /\ Range(col_order) \subseteq DOMAIN config

====
